---- MODULE Spec2Model ----
(***************************************************************************)
(* Coffee shop backend (starter_code/backend/src/api.py): five Flask       *)
(* routes over the persisted Drink table, guarded by requires_auth, plus   *)
(* the error handlers.  Drink (database/models.py) and requires_auth       *)
(* (auth/auth.py) are imported by api.py; their definitions are modelled   *)
(* from the specification's sections 3, 4.1, 4.2 and 4.3.                  *)
(*                                                                         *)
(* Every record is written with its fields in the order in which the field *)
(* names first occur in this module, which is the order TLC keeps them in: *)
(* TLC's workers share record values, and a record already in that order   *)
(* is never reordered under another worker.                                *)
(***************************************************************************)
EXTENDS Integers, Sequences, FiniteSets, TLC

VARIABLES
    drinks,   \* the persisted Drink table: id -> [title, recipe], recipe as stored text
    nextId,   \* the next id the store assigns
    req,      \* the request just handled, until its teardown (sequential service)
    resp,     \* its response: [status, body]
    pre,      \* the Drink table as it was when that request arrived
    pc,       \* concurrent service: each worker's position in its handler
    wreq,     \* concurrent service: each worker's request
    loaded,   \* concurrent service: the Drink object a worker's session holds
    wresp,    \* concurrent service: each worker's response
    order     \* concurrent service: workers in the order they reached the store's commit

vars == <<drinks, nextId, req, resp, pre, pc, wreq, loaded, wresp, order>>

-----------------------------------------------------------------------------
(* Bounds and input sets *)

MaxDrinks == 2

Ids == 1..MaxDrinks
Titles == {"Water", "Latte"}
Recipes == { << [color |-> "blue", parts |-> 1] >>,
             << [color |-> "brown", parts |-> 2], [color |-> "white", parts |-> 1] >> }

None == [kind |-> "None"]

-----------------------------------------------------------------------------
(* json.dumps / json.loads on a recipe (a list of {color, parts} objects) *)

DigitStr == <<"1", "2", "3">>

IntToStr(n) == DigitStr[n]

StrToInt(s) == CHOOSE n \in DOMAIN DigitStr : DigitStr[n] = s

DumpEntry(e) == <<"{", "color", e.color, "parts", IntToStr(e.parts), "}">>

RECURSIVE DumpEntries(_)
DumpEntries(r) ==
    IF r = <<>> THEN <<>>
    ELSE IF Len(r) = 1 THEN DumpEntry(r[1])
    ELSE DumpEntry(r[1]) \o <<",">> \o DumpEntries(Tail(r))

json_dumps(r) == <<"[">> \o DumpEntries(r) \o <<"]">>

RECURSIVE LoadEntries(_)
LoadEntries(t) ==
    IF t = <<>> THEN <<>>
    ELSE IF t[1] = "," THEN LoadEntries(Tail(t))
    ELSE << [color |-> t[3], parts |-> StrToInt(t[5])] >>
            \o LoadEntries(SubSeq(t, 7, Len(t)))

json_loads(t) == LoadEntries(SubSeq(t, 2, Len(t) - 1))

-----------------------------------------------------------------------------
(* Drink model: projections and repository operations *)

RECURSIVE ShortRecipe(_)
ShortRecipe(r) ==
    IF r = <<>> THEN <<>>
    ELSE << [color |-> r[1].color] >> \o ShortRecipe(Tail(r))

\* drink is [id, title, recipe] with recipe as stored text
long(drink) ==
    [id |-> drink.id, title |-> drink.title, recipe |-> json_loads(drink.recipe)]

short(drink) ==
    [id |-> drink.id, title |-> drink.title,
     recipe |-> ShortRecipe(json_loads(drink.recipe))]

Row(db, id) == [id |-> id, title |-> db[id].title, recipe |-> db[id].recipe]

RECURSIVE RowsFrom(_, _)
RowsFrom(db, ids) ==
    IF ids = {} THEN <<>>
    ELSE LET i == CHOOSE x \in ids : \A y \in ids : x <= y
         IN  <<Row(db, i)>> \o RowsFrom(db, ids \ {i})

\* Drink.query.all()
query_all(db) == RowsFrom(db, DOMAIN db)

\* Drink.query.filter_by(id=id).one_or_none()
one_or_none(db, id) == IF id \in DOMAIN db THEN Row(db, id) ELSE None

-----------------------------------------------------------------------------
(* Requests: Authorization headers and JSON bodies *)

Permissions == {"get:drinks-detail", "post:drinks", "patch:drinks", "delete:drinks"}

TokenPerms == {{}, Permissions}
                \cup {{p} : p \in Permissions}
                \cup {Permissions \ {p} : p \in Permissions}

AuthHeaders ==
    [kind : {"missing", "malformed", "undecodable", "expired", "wrong_audience"},
     permissions : {{}}]
      \cup [kind : {"valid"}, permissions : TokenPerms]

\* request.get_json(): a JSON object (has = its keys among title and recipe),
\* a JSON array (has = its string items), a JSON number, or null / no body
Bodies ==
    { [kind |-> "object", title |-> IF "title" \in h THEN t ELSE "",
       recipe |-> IF "recipe" \in h THEN r ELSE <<>>,
       has |-> h] :
         h \in SUBSET {"title", "recipe"}, t \in Titles, r \in Recipes }
      \cup [kind : {"array"}, title : {""}, recipe : {<<>>}, has : {{}, {"title"}}]
      \cup [kind : {"number", "null"}, title : {""}, recipe : {<<>>}, has : {{}}]

NoBody == [kind |-> "null", title |-> "", recipe |-> <<>>, has |-> {}]

\* bodies that carry both title and recipe
FullBodies == {b \in Bodies : b.kind = "object" /\ b.has = {"title", "recipe"}}

FullToken == [kind |-> "valid", permissions |-> Permissions]

\* Python: key in body
In(key, body) ==
    IF body.kind \in {"object", "array"} THEN
        IF key \in body.has THEN "True" ELSE "False"
    ELSE "TypeError"

\* Python: body[key]
Subscript(body, key) ==
    IF body.kind = "object" THEN
        IF key \in body.has THEN "value" ELSE "KeyError"
    ELSE "TypeError"

-----------------------------------------------------------------------------
(* Token verifier and permission guard (auth/auth.py) *)

AuthError(error) == [error |-> error, status_code |-> 401]

\* verify the Authorization header: the decoded claims, or the failure kind
verify_decode_jwt(auth) ==
    CASE auth.kind = "missing"        -> [e |-> AuthError("MissingHeader"), ok |-> FALSE]
      [] auth.kind = "malformed"      -> [e |-> AuthError("MalformedHeader"), ok |-> FALSE]
      [] auth.kind = "undecodable"    -> [e |-> AuthError("InvalidHeader"), ok |-> FALSE]
      [] auth.kind = "expired"        -> [e |-> AuthError("TokenExpired"), ok |-> FALSE]
      [] auth.kind = "wrong_audience" -> [e |-> AuthError("InvalidClaims"), ok |-> FALSE]
      [] auth.kind = "valid"          -> [e |-> AuthError(""), ok |-> TRUE]

check_permissions(permission, auth) == permission \in auth.permissions

\* requires_auth(permission): the AuthError raised, or pass
requires_auth(permission, auth) ==
    LET v == verify_decode_jwt(auth) IN
    IF ~v.ok THEN [e |-> v.e, ok |-> FALSE]
    ELSE IF ~check_permissions(permission, auth)
         THEN [e |-> AuthError("PermissionMissing"), ok |-> FALSE]
         ELSE [e |-> AuthError(""), ok |-> TRUE]

-----------------------------------------------------------------------------
(* Error handlers *)

not_found ==
    [body |-> [error |-> 404, success |-> FALSE, message |-> "resource not found"],
     status |-> 404]

unprocessable ==
    [body |-> [error |-> 422, success |-> FALSE, message |-> "unprocessable"],
     status |-> 422]

bad_request ==
    [body |-> [error |-> 400, success |-> FALSE, message |-> "bad request"],
     status |-> 400]

server_error ==
    [body |-> [error |-> 500, success |-> FALSE, message |-> "server error"],
     status |-> 500]

\* mutant: the status left off the returned tuple
handle_auth_errors_m(e) ==
    [body |-> [error |-> e.status_code, success |-> FALSE, message |-> e.error],
     status |-> 200]

handle_auth_errors(e) ==
    [body |-> [error |-> e.status_code, success |-> FALSE, message |-> e.error],
     status |-> 401]

\* abort(code): the registered handler of that code
abort(code) ==
    CASE code = 404 -> not_found
      [] code = 422 -> unprocessable
      [] code = 400 -> bad_request
      [] code = 500 -> server_error

\* an exception no handler catches (KeyError, TypeError) ends in the 500 handler
unhandled_exception == abort(500)

jsonify(body) == [body |-> body, status |-> 200]

-----------------------------------------------------------------------------
(* Drink repository writes (database/models.py) *)

\* Drink(title, recipe).insert() of a new object: the store assigns the id
Drink_insert(db, next, title, recipe, fail) ==
    IF fail THEN [nextId |-> next, id |-> 0, db |-> db, ok |-> FALSE]
    ELSE [nextId |-> next + 1,
          id |-> next,
          db |-> [i \in DOMAIN db \cup {next} |->
                    IF i = next THEN [title |-> title, recipe |-> recipe] ELSE db[i]],
          ok |-> TRUE]

\* drink.insert() of an object loaded earlier: writes the attributes that were
\* assigned to the stored row, which has to be there still
Drink_update(db, drink, assigned, fail) ==
    IF fail \/ drink.id \notin DOMAIN db THEN [db |-> db, ok |-> FALSE]
    ELSE [db |-> [db EXCEPT ![drink.id] =
                    [title  |-> IF "title" \in assigned THEN drink.title ELSE @.title,
                     recipe |-> IF "recipe" \in assigned THEN drink.recipe ELSE @.recipe]],
          ok |-> TRUE]

\* drink.delete()
Drink_delete(db, drink, fail) ==
    IF fail THEN [db |-> db, ok |-> FALSE]
    ELSE [db |-> [i \in DOMAIN db \ {drink.id} |-> db[i]], ok |-> TRUE]

-----------------------------------------------------------------------------
(* Routes *)

NoGuard == ""

GET_drinks == "GET /drinks"
GET_drinks_detail == "GET /drinks-detail"
POST_drinks == "POST /drinks"
PATCH_drinks == "PATCH /drinks/<id>"
DELETE_drinks == "DELETE /drinks/<id>"

Routes == {GET_drinks, GET_drinks_detail, POST_drinks, PATCH_drinks, DELETE_drinks}

\* the permission each route's requires_auth decorator names
\* mutants of the guards: a decorator copied from the neighbouring route
drinks_guard_m == "get:drinks-detail"
add_drink_guard_m == "get:drinks-detail"

drinks_guard == NoGuard
drinks_detail_guard == "get:drinks-detail"
add_drink_guard == "post:drinks"
edit_drink_by_id_guard == "patch:drinks"
delete_drink_guard == "delete:drinks"

RequiredPermission(route) ==
    CASE route = GET_drinks        -> drinks_guard
      [] route = GET_drinks_detail -> drinks_detail_guard
      [] route = POST_drinks       -> add_drink_guard
      [] route = PATCH_drinks      -> edit_drink_by_id_guard
      [] route = DELETE_drinks     -> delete_drink_guard

\* a handler's result: the response and the store it leaves
Result(r, db, next) == [nextId |-> next, resp |-> r, db |-> db]

drinks_handler(db) ==
    LET all == query_all(db) IN
    IF Len(all) = 0 THEN abort(404)
    ELSE jsonify([drinks |-> [i \in 1..Len(all) |-> short(all[i])],
                  success |-> TRUE])

\* mutant: the empty check left out
drinks_detail_m(db) ==
    LET all == query_all(db) IN
    jsonify([drinks |-> [i \in 1..Len(all) |-> long(all[i])], success |-> TRUE])

drinks_detail(db) ==
    LET all == query_all(db) IN
    IF Len(all) = 0 THEN abort(404)
    ELSE jsonify([drinks |-> [i \in 1..Len(all) |-> long(all[i])],
                  success |-> TRUE])

\* mutant: the new drink answered as a one-element list, as PATCH does
add_drink_m(db, next, body, fail) ==
    IF Subscript(body, "title") # "value" \/ Subscript(body, "recipe") # "value"
    THEN Result(unhandled_exception, db, next)
    ELSE LET ins == Drink_insert(db, next, body.title, json_dumps(body.recipe), fail) IN
         IF ~ins.ok THEN Result(abort(422), db, next)
         ELSE Result(jsonify([drinks |-> << long(Row(ins.db, ins.id)) >>, success |-> TRUE]),
                     ins.db, ins.nextId)

add_drink(db, next, body, fail) ==
    IF Subscript(body, "title") # "value" \/ Subscript(body, "recipe") # "value"
    THEN Result(unhandled_exception, db, next)
    ELSE LET ins == Drink_insert(db, next, body.title, json_dumps(body.recipe), fail) IN
         IF ~ins.ok THEN Result(abort(422), db, next)
         ELSE Result(jsonify([drinks |-> long(Row(ins.db, ins.id)), success |-> TRUE]),
                     ins.db, ins.nextId)

\* mutant: both attributes assigned, the absent ones from the loaded drink
\* (drink.title = body.get('title', drink.title))
edit_assign_stale(drink, body) ==
    IF In("title", body) = "TypeError" THEN [drink |-> drink, assigned |-> {}, raised |-> TRUE]
    ELSE IF In("title", body) = "True" /\ Subscript(body, "title") # "value"
    THEN [drink |-> drink, assigned |-> {}, raised |-> TRUE]
    ELSE IF In("recipe", body) = "True" /\ Subscript(body, "recipe") # "value"
    THEN [drink |-> drink, assigned |-> {}, raised |-> TRUE]
    ELSE [drink |-> [id |-> drink.id,
                     title  |-> IF In("title", body) = "True" THEN body.title
                                ELSE drink.title,
                     recipe |-> IF In("recipe", body) = "True" THEN json_dumps(body.recipe)
                                ELSE drink.recipe],
          assigned |-> {"title", "recipe"},
          raised |-> FALSE]

\* mutant: the recipe assigned from body.get('recipe', []) whether present or not
edit_assign_default(drink, body) ==
    IF In("title", body) = "TypeError" THEN [drink |-> drink, assigned |-> {}, raised |-> TRUE]
    ELSE IF In("title", body) = "True" /\ Subscript(body, "title") # "value"
    THEN [drink |-> drink, assigned |-> {}, raised |-> TRUE]
    ELSE [drink |-> [id |-> drink.id,
                     title  |-> IF In("title", body) = "True" THEN body.title
                                ELSE drink.title,
                     recipe |-> json_dumps(body.recipe)],
          assigned |-> {k \in {"title"} : In(k, body) = "True"} \cup {"recipe"},
          raised |-> FALSE]

\* lines 129-137: the attributes of the loaded drink the body overwrites
edit_assign(drink, body) ==
    LET hasTitle  == In("title", body)
        hasRecipe == In("recipe", body)
    IN
    IF hasTitle = "TypeError" THEN [drink |-> drink, assigned |-> {}, raised |-> TRUE]
    ELSE IF hasTitle = "True" /\ Subscript(body, "title") # "value"
    THEN [drink |-> drink, assigned |-> {}, raised |-> TRUE]
    ELSE IF hasRecipe = "True" /\ Subscript(body, "recipe") # "value"
    THEN [drink |-> drink, assigned |-> {}, raised |-> TRUE]
    ELSE [drink |-> [id |-> drink.id,
                     title  |-> IF hasTitle = "True" THEN body.title ELSE drink.title,
                     recipe |-> IF hasRecipe = "True" THEN json_dumps(body.recipe)
                                ELSE drink.recipe],
          assigned |-> {k \in {"title", "recipe"} : In(k, body) = "True"},
          raised |-> FALSE]

\* mutant: the exception of drink.insert() swallowed (except: pass)
edit_insert_swallowed(drink) ==
    jsonify([drinks |-> << long(drink) >>, success |-> TRUE])

\* lines 142-144: drink.insert() raised
edit_insert_failed(drink) == abort(400)

\* lines 139-153: persist the loaded drink and answer
edit_persist(db, next, drink, assigned, fail) ==
    LET upd == Drink_update(db, drink, assigned, fail) IN
    IF ~upd.ok THEN Result(edit_insert_failed(drink), db, next)
    ELSE Result(jsonify([drinks |-> << long(Row(upd.db, drink.id)) >>,
                         success |-> TRUE]),
                upd.db, next)

edit_drink_by_id(db, next, id, body, fail) ==
    LET drink == one_or_none(db, id) IN
    IF drink = None THEN Result(abort(404), db, next)
    ELSE LET a == edit_assign(drink, body) IN
         IF a.raised THEN Result(unhandled_exception, db, next)
         ELSE edit_persist(db, next, a.drink, a.assigned, fail)

\* lines 174-185: delete the loaded drink and answer
delete_commit(db, next, drink, id, fail) ==
    LET del == Drink_delete(db, drink, fail) IN
    IF ~del.ok THEN Result(abort(500), db, next)
    ELSE Result(jsonify([success |-> TRUE, delete |-> id]), del.db, next)

\* mutant: no check of the lookup; drink.delete() on None raises inside the try
delete_drink_m(db, next, id, fail) ==
    LET drink == one_or_none(db, id) IN
    IF drink = None THEN Result(abort(500), db, next)
    ELSE delete_commit(db, next, drink, id, fail)

delete_drink(db, next, id, fail) ==
    LET drink == one_or_none(db, id) IN
    IF drink = None THEN Result(abort(404), db, next)
    ELSE delete_commit(db, next, drink, id, fail)

\* the guard in front of a route: the AuthError response, or pass
Guard(route, auth) ==
    IF RequiredPermission(route) = NoGuard THEN [e |-> AuthError(""), ok |-> TRUE]
    ELSE requires_auth(RequiredPermission(route), auth)

\* one request through guard, handler and error handlers
Handle(r, db, next) ==
    LET g == Guard(r.route, r.auth) IN
    IF ~g.ok THEN Result(handle_auth_errors(g.e), db, next)
    ELSE CASE r.route = GET_drinks        -> Result(drinks_handler(db), db, next)
           [] r.route = GET_drinks_detail -> Result(drinks_detail(db), db, next)
           [] r.route = POST_drinks       -> add_drink(db, next, r.body, r.fail)
           [] r.route = PATCH_drinks      -> edit_drink_by_id(db, next, r.id, r.body, r.fail)
           [] r.route = DELETE_drinks     -> delete_drink(db, next, r.id, r.fail)

Request(route, auth, id, body, fail) ==
    [id |-> id, body |-> body, auth |-> auth, fail |-> fail, route |-> route]

NoRequest == Request("", [kind |-> "missing", permissions |-> {}], 0, NoBody, FALSE)
NoResponse == [body |-> [success |-> TRUE], status |-> 0]

-----------------------------------------------------------------------------------------------------------------------------------------------------
(* Sequential service: one request at a time, each handled whole *)

Workers == {1, 2}

EmptyDb == [i \in {} |-> [title |-> "", recipe |-> <<>>]]

NoSession == [drink |-> None, assigned |-> {}]

Init ==
    /\ drinks = EmptyDb
    /\ nextId = 1
    /\ req = NoRequest
    /\ resp = NoResponse
    /\ pre = EmptyDb
    /\ pc = [w \in Workers |-> "idle"]
    /\ wreq = [w \in Workers |-> NoRequest]
    /\ loaded = [w \in Workers |-> NoSession]
    /\ wresp = [w \in Workers |-> NoResponse]
    /\ order = <<>>

ConcUnchanged == UNCHANGED <<pc, wreq, loaded, wresp, order>>

\* no request is in progress
Ready == req = NoRequest

\* request r is handled and answered
Serve(r) ==
    /\ \E h \in {Handle(r, drinks, nextId)} :
          /\ req' = r
          /\ pre' = drinks
          /\ resp' = h.resp
          /\ drinks' = h.db
          /\ nextId' = h.nextId
    /\ ConcUnchanged

GetDrinks ==
    /\ Ready
    /\ \E a \in AuthHeaders : Serve(Request(GET_drinks, a, 0, NoBody, FALSE))

GetDrinksDetail ==
    /\ Ready
    /\ \E a \in AuthHeaders : Serve(Request(GET_drinks_detail, a, 0, NoBody, FALSE))

PostDrink ==
    /\ Ready
    /\ nextId <= MaxDrinks
    /\ \E a \in AuthHeaders, b \in Bodies, f \in BOOLEAN :
          Serve(Request(POST_drinks, a, 0, b, f))

PatchDrink ==
    /\ Ready
    /\ \E a \in AuthHeaders, i \in Ids, b \in Bodies, f \in BOOLEAN :
          Serve(Request(PATCH_drinks, a, i, b, f))

DeleteDrink ==
    /\ Ready
    /\ \E a \in AuthHeaders, i \in Ids, f \in BOOLEAN :
          Serve(Request(DELETE_drinks, a, i, NoBody, f))

\* the response is sent and the request context is dropped
Teardown ==
    /\ req # NoRequest
    /\ req' = NoRequest
    /\ resp' = NoResponse
    /\ pre' = EmptyDb
    /\ UNCHANGED <<drinks, nextId>>
    /\ ConcUnchanged

Next ==
    \/ GetDrinks
    \/ GetDrinksDetail
    \/ PostDrink
    \/ PatchDrink
    \/ DeleteDrink
    \/ Teardown

Spec == Init /\ [][Next]_vars

-----------------------------------------------------------------------------
(* Concurrent service: two workers, each handling one PATCH or DELETE, their
   lookup, assignment and commit steps interleaved *)

ConcRows == { [title |-> "Water",
               recipe |-> json_dumps(<< [color |-> "blue", parts |-> 1] >>)],
              [title |-> "Latte",
               recipe |-> json_dumps(<< [color |-> "brown", parts |-> 2],
                                        [color |-> "white", parts |-> 1] >>)] }

ConcAuth == {FullToken, [kind |-> "valid", permissions |-> {}]}

ConcBodies == {b \in Bodies : b.kind \in {"object", "null"}}

ConcInit ==
    /\ drinks \in {[i \in Ids |-> row] : row \in ConcRows}
    /\ nextId = MaxDrinks + 1
    /\ req = NoRequest
    /\ resp = NoResponse
    /\ pre = drinks
    /\ pc = [w \in Workers |-> "idle"]
    /\ wreq = [w \in Workers |-> NoRequest]
    /\ loaded = [w \in Workers |-> NoSession]
    /\ wresp = [w \in Workers |-> NoResponse]
    /\ order = <<>>

SeqUnchanged == UNCHANGED <<nextId, req, resp, pre>>

Finish(w, r) ==
    /\ wresp' = [wresp EXCEPT ![w] = r]
    /\ pc' = [pc EXCEPT ![w] = "done"]

\* the request reaches worker w and passes or fails the route's guard
Arrive(w, r) ==
    /\ pc[w] = "idle"
    /\ wreq' = [wreq EXCEPT ![w] = r]
    /\ IF Guard(r.route, r.auth).ok
       THEN /\ pc' = [pc EXCEPT ![w] = "lookup"]
            /\ UNCHANGED wresp
       ELSE Finish(w, handle_auth_errors(Guard(r.route, r.auth).e))
    /\ UNCHANGED <<drinks, loaded, order>>
    /\ SeqUnchanged

ArrivePatch(w) ==
    \E a \in ConcAuth, i \in Ids, b \in ConcBodies :
        Arrive(w, Request(PATCH_drinks, a, i, b, FALSE))

ArriveDelete(w) ==
    \E a \in ConcAuth, i \in Ids :
        Arrive(w, Request(DELETE_drinks, a, i, NoBody, FALSE))

\* lines 122-126 and 168-172: the lookup by id
Lookup(w) ==
    /\ pc[w] = "lookup"
    /\ \E drink \in {one_or_none(drinks, wreq[w].id)} :
          IF drink = None
          THEN /\ Finish(w, abort(404))
               /\ UNCHANGED loaded
          ELSE /\ loaded' = [loaded EXCEPT ![w] = [drink |-> drink, assigned |-> {}]]
               /\ pc' = [pc EXCEPT ![w] =
                            IF wreq[w].route = PATCH_drinks THEN "assign" ELSE "commit"]
               /\ UNCHANGED wresp
    /\ UNCHANGED <<drinks, wreq, order>>
    /\ SeqUnchanged

\* lines 129-137: the body's fields assigned to the loaded drink
Assign(w) ==
    /\ pc[w] = "assign"
    /\ \E a \in {edit_assign(loaded[w].drink, wreq[w].body)} :
          IF a.raised
          THEN /\ Finish(w, unhandled_exception)
               /\ UNCHANGED loaded
          ELSE /\ loaded' = [loaded EXCEPT ![w] = [drink |-> a.drink, assigned |-> a.assigned]]
               /\ pc' = [pc EXCEPT ![w] = "persist"]
               /\ UNCHANGED wresp
    /\ UNCHANGED <<drinks, wreq, order>>
    /\ SeqUnchanged

\* lines 139-153: drink.insert() and the answer
Persist(w) ==
    /\ pc[w] = "persist"
    /\ \E fail \in BOOLEAN :
       \E h \in {edit_persist(drinks, nextId, loaded[w].drink, loaded[w].assigned, fail)} :
          /\ drinks' = h.db
          /\ Finish(w, h.resp)
    /\ order' = Append(order, w)
    /\ UNCHANGED <<wreq, loaded>>
    /\ SeqUnchanged

\* lines 174-185: drink.delete() and the answer
Commit(w) ==
    /\ pc[w] = "commit"
    /\ \E fail \in BOOLEAN :
       \E h \in {delete_commit(drinks, nextId, loaded[w].drink, wreq[w].id, fail)} :
          /\ drinks' = h.db
          /\ Finish(w, h.resp)
    /\ order' = Append(order, w)
    /\ UNCHANGED <<wreq, loaded>>
    /\ SeqUnchanged

ConcNext ==
    \E w \in Workers :
        \/ ArrivePatch(w)
        \/ ArriveDelete(w)
        \/ Lookup(w)
        \/ Assign(w)
        \/ Persist(w)
        \/ Commit(w)

ConcSpec == ConcInit /\ [][ConcNext]_vars

-----
(* Properties of the sequential service *)

Served == req.route \in Routes

HasPermission(r, permission) ==
    r.auth.kind = "valid" /\ permission \in r.auth.permissions

\* the permission the interface documents for each guarded route
DocumentedPermission(route) ==
    CASE route = GET_drinks_detail -> "get:drinks-detail"
      [] route = POST_drinks       -> "post:drinks"
      [] route = PATCH_drinks      -> "patch:drinks"
      [] route = DELETE_drinks     -> "delete:drinks"

GuardedRoutes == {GET_drinks_detail, POST_drinks, PATCH_drinks, DELETE_drinks}

LacksPermission(r) ==
    /\ r.route \in GuardedRoutes
    /\ r.auth.kind = "valid"
    /\ DocumentedPermission(r.route) \notin r.auth.permissions

\* C1: on every guarded route, a valid token without the route's permission
\* gets 401 and the persisted drinks are the same before and after.
C1_NoPermissionNoEffect ==
    LacksPermission(req) => (resp.status = 401 /\ drinks = pre)

\* a create with a well-formed body over a non-empty table, refused for the
\* missing post:drinks permission
C1_Witness ==
    /\ LacksPermission(req)
    /\ req.route = POST_drinks
    /\ req.body \in FullBodies
    /\ req.auth.permissions = Permissions \ {"post:drinks"}
    /\ pre # EmptyDb
    /\ resp.status = 401

OneEntryPerDrink(entries, db) ==
    /\ Len(entries) = Cardinality(DOMAIN db)
    /\ \A i \in DOMAIN db : \E k \in 1..Len(entries) : entries[k].id = i

ListedOrNotFound ==
    IF pre = EmptyDb THEN resp.status = 404
    ELSE resp.status = 200 /\ OneEntryPerDrink(resp.body.drinks, pre)

\* C2: with no drink persisted GET /drinks and an authorized GET /drinks-detail
\* answer 404; otherwise both answer 200 with one entry per persisted drink.
C2_EmptyIs404 ==
    /\ req.route = GET_drinks => ListedOrNotFound
    /\ (req.route = GET_drinks_detail /\ HasPermission(req, "get:drinks-detail"))
          => ListedOrNotFound

\* the detailed list answers 404 after every drink created was deleted again
C2_Witness ==
    /\ req.route = GET_drinks_detail
    /\ HasPermission(req, "get:drinks-detail")
    /\ nextId > 1
    /\ pre = EmptyDb
    /\ resp.status = 404

DeleteOk == req.route = DELETE_drinks /\ resp.status = 200

\* C3: after an authorized DELETE of a present id answers 200 (delete = id) the
\* id is absent; absent ids come back only through a create, and an authorized
\* DELETE of an absent id answers 404, never 500.
C3_DeleteTwice ==
    [][ /\ DeleteOk' => /\ req'.id \in DOMAIN pre'
                        /\ resp'.body.delete = req'.id
                        /\ one_or_none(drinks', req'.id) = None
        /\ \A i \in Ids : (i \notin DOMAIN drinks /\ i \in DOMAIN drinks')
                              => (req'.route = POST_drinks /\ resp'.status = 200)
        /\ (/\ req'.route = DELETE_drinks
            /\ HasPermission(req', "delete:drinks")
            /\ req'.id \notin DOMAIN drinks)
              => resp'.status = 404 ]_vars

\* a second authorized DELETE of an id that was created and deleted, with the
\* store failing, answers 404
C3_Witness ==
    /\ req.route = DELETE_drinks
    /\ HasPermission(req, "delete:drinks")
    /\ req.id < nextId
    /\ req.id \notin DOMAIN pre
    /\ req.fail
    /\ resp.status = 404

Provided(body, key) == body.kind = "object" /\ key \in body.has

\* the entry of drink id in the detailed listing of db
ReadBack(db, id) ==
    LET all == drinks_detail(db).body.drinks IN
    all[CHOOSE k \in 1..Len(all) : all[k].id = id]

\* C4: a successful PATCH changes exactly the fields its body provides; the id
\* and every other drink stay as they were, and a following read shows the
\* provided values for the provided fields and the prior values for the rest.
C4_PatchFrame ==
    (req.route = PATCH_drinks /\ resp.status = 200) =>
        /\ req.id \in DOMAIN pre
        /\ DOMAIN drinks = DOMAIN pre
        /\ \A j \in DOMAIN pre \ {req.id} : drinks[j] = pre[j]
        /\ ReadBack(drinks, req.id).id = req.id
        /\ ReadBack(drinks, req.id).title =
              IF Provided(req.body, "title") THEN req.body.title
              ELSE ReadBack(pre, req.id).title
        /\ ReadBack(drinks, req.id).recipe =
              IF Provided(req.body, "recipe") THEN req.body.recipe
              ELSE ReadBack(pre, req.id).recipe
        /\ ~Provided(req.body, "title") => drinks[req.id].title = pre[req.id].title
        /\ ~Provided(req.body, "recipe") => drinks[req.id].recipe = pre[req.id].recipe
        /\ resp.body.drinks = << ReadBack(drinks, req.id) >>

\* a title-only PATCH that changed the title of one of two drinks
C4_Witness ==
    /\ req.route = PATCH_drinks
    /\ resp.status = 200
    /\ req.body.kind = "object"
    /\ req.body.has = {"title"}
    /\ Cardinality(DOMAIN pre) = 2
    /\ drinks[req.id].title # pre[req.id].title

MalformedCreate ==
    /\ req.route = POST_drinks
    /\ HasPermission(req, "post:drinks")
    /\ req.body \notin FullBodies

MalformedUpdate ==
    /\ req.route = PATCH_drinks
    /\ HasPermission(req, "patch:drinks")
    /\ req.id \in DOMAIN pre
    /\ req.body.kind # "object"

\* C6: an authorized POST whose body lacks title or recipe, or is no JSON
\* object, answers 422; an authorized PATCH of an existing id whose body is
\* absent or no JSON object answers 400; the drinks are unchanged.
C6_MalformedBodies ==
    /\ MalformedCreate => (resp.status = 422 /\ drinks = pre)
    /\ MalformedUpdate => (resp.status = 400 /\ drinks = pre)

Failed == resp.status # 200 \/ resp.body.success = FALSE

GuardRefuses(r) ==
    /\ r.route \in GuardedRoutes
    /\ ~HasPermission(r, DocumentedPermission(r.route))

\* C7: every failing response is {success: false, error, message} with error
\* equal to the HTTP status; authorization errors have status 401.
C7_ErrorEnvelope ==
    Served =>
        /\ Failed =>
              /\ DOMAIN resp.body = {"success", "error", "message"}
              /\ resp.body.success = FALSE
              /\ resp.body.error = resp.status
              /\ resp.body.message \in STRING
        /\ GuardRefuses(req) => (Failed /\ resp.status = 401)

\* an expired token refused on DELETE
C7_Witness ==
    /\ req.route = DELETE_drinks
    /\ req.auth.kind = "expired"
    /\ Failed
    /\ resp.status = 401

\* C8: GET /drinks never answers 401, and its response is the one every other
\* Authorization header gets on the same persisted drinks.
C8_PublicList ==
    req.route = GET_drinks =>
        /\ resp.status \in {200, 404}
        /\ \A a \in AuthHeaders :
              Handle(Request(GET_drinks, a, 0, NoBody, FALSE), pre, nextId).resp = resp

\* the public list served to an expired token
C8_Witness ==
    /\ req.route = GET_drinks
    /\ req.auth.kind = "expired"
    /\ resp.status = 200

-----------------------------------------------------------------------------
(* Properties of the concurrent service *)

AllDone == \A w \in Workers : pc[w] = "done"

PatchOk(w, id) ==
    /\ wreq[w].route = PATCH_drinks
    /\ wreq[w].id = id
    /\ wresp[w].status = 200

\* the position of worker w's commit among the commits
Pos(w) == CHOOSE k \in 1..Len(order) : order[k] = w

\* among the workers in ws, the one that committed last
LastOf(ws) == CHOOSE w \in ws : \A v \in ws : Pos(v) <= Pos(w)

Providers(key) == {w \in Workers : Provided(wreq[w].body, key)}

\* C9: when two interleaved PATCHes of one id both answer 200, each field holds
\* the value of the last-committing request that provided it, and a field no
\* request provided holds its prior value.
C9_LastWriterPerField ==
    \A id \in Ids :
        (AllDone /\ \A w \in Workers : PatchOk(w, id)) =>
            /\ id \in DOMAIN drinks
            /\ drinks[id].title =
                  IF Providers("title") = {} THEN pre[id].title
                  ELSE wreq[LastOf(Providers("title"))].body.title
            /\ json_loads(drinks[id].recipe) =
                  IF Providers("recipe") = {} THEN json_loads(pre[id].recipe)
                  ELSE wreq[LastOf(Providers("recipe"))].body.recipe

\* a title-only and a recipe-only PATCH of one id, each looked up before the
\* other committed, both answered 200 and both new values are stored
C9_Witness ==
    \E id \in Ids : \E w, v \in Workers :
        /\ AllDone
        /\ PatchOk(w, id) /\ PatchOk(v, id)
        /\ wreq[w].body.has = {"title"}
        /\ wreq[v].body.has = {"recipe"}
        /\ loaded[w].drink.recipe = pre[id].recipe
        /\ loaded[v].drink.title = pre[id].title
        /\ drinks[id].title = wreq[w].body.title
        /\ drinks[id].title # pre[id].title
        /\ json_loads(drinks[id].recipe) = wreq[v].body.recipe
        /\ drinks[id].recipe # pre[id].recipe

\* worker p's PATCH found the drink, and commits after worker d's DELETE of the
\* same id answered 200
PatchAfterDelete(p, d) ==
    /\ wreq[d].route = DELETE_drinks
    /\ wresp[d].status = 200
    /\ wreq[p].route = PATCH_drinks
    /\ wreq[p].id = wreq[d].id
    /\ loaded[p].drink # None
    /\ pc[p] = "done"
    /\ \E j, k \in 1..Len(order) : j < k /\ order[j] = d /\ order[k] = p

====
